---- MODULE Spec2Model ----
(***************************************************************************)
(* Delivery lifecycle and assignment engine of dago: food orders and       *)
(* parcel deliveries from creation through driver claim, status updates    *)
(* and cancellation to the review that rates the restaurant or the driver  *)
(* (src/app/routers/{food_orders,parcels,drivers,admin}.py), and the       *)
(* registration of accounts (src/app/routers/auth.py).                     *)
(*                                                                         *)
(* Every request handler runs on its own database session (PostgreSQL,     *)
(* read committed): it first SELECTs the row and checks it, later it       *)
(* commits the attributes it changed, with an UPDATE ... WHERE id = ...    *)
(* that carries no other condition.  Other requests may commit between    *)
(* the two, so a handler that passes its checks is modelled as two (or     *)
(* three) steps: Begin reads the row into the session, Commit writes the   *)
(* changed columns.  A handler that raises HTTPException finishes inside   *)
(* its Begin step.                                                         *)
(*                                                                         *)
(* Amounts of money are integers counting ten-thousandths, so that the     *)
(* product of two two-decimal Decimals is exact, as it is in Python.       *)
(*                                                                         *)
(* Distances are integers counting ten-thousandths of a kilometre: the     *)
(* float that calculate_distance returns is kept to four decimals.         *)
(*                                                                         *)
(* Not modelled: updated_at (the ORM's onupdate column), addresses and     *)
(* free-text columns.                                                      *)
(***************************************************************************)
EXTENDS Integers, FiniteSets, Sequences, Bags, TLC

\* ---------------------------------------------------------------- bounds
MaxJobs == 1
MaxSessions == 2
MaxTime == 2
MaxDeliveries == 2
MaxRestaurants == 2
MaxMenuItems == 2
MaxItems == 2
MaxQuantity == 2

\* The authenticated principals, by role.  Customers create jobs; the driver
\* endpoints sit behind require_role([UserRole.DRIVER]), so only drivers reach
\* their handlers; the cancel endpoints take any active user.
Customers == {"c1"}
Drivers == {"d1", "d2"}
Admins == {"a1"}
Users == Customers \cup Drivers \cup Admins

\* Orders and parcels draw their ids from one space (uuid4): an id names at
\* most one row of the two tables.
Ids == 1..MaxJobs

\* The ids a request can name in the restaurants and menu_items tables,
\* whether or not a row has that id.
RestaurantIds == 1..MaxRestaurants

MenuItemIds == 1..MaxMenuItems

\* Python's None: in a user-id column, for a row that does not exist, for a
\* timestamp that was never set, for a coordinate that was not given, and for
\* a step that returned nothing.
None == "None"
NoRow == [exists |-> FALSE]
NoTime == 0
NoCoordinate == 0 - 1
NoOrder == 0
NoResponse == [op |-> "none", user |-> None, id |-> 0, status_code |-> 0, detail |-> ""]

\* ------------------------------------------------------------ enumerations
OrderStatus ==
    {"pending", "confirmed", "preparing", "ready", "picked_up", "delivered", "cancelled"}

ParcelStatus ==
    {"pending", "assigned", "picked_up", "in_transit", "delivered", "cancelled"}

\* ------------------------------------------------------------------ state
VARIABLES
    restaurants,        \* table restaurants: id -> row, or NoRow
    menu_items,         \* table menu_items: id -> row, or NoRow
    order_items,        \* table order_items: order id -> its rows, in insertion order
    food_orders,        \* table food_orders: id -> row, or NoRow
    parcel_deliveries,  \* table parcel_deliveries: id -> row, or NoRow
    total_deliveries,   \* driver_profiles.total_deliveries, per driver
    users,              \* table users with the profiles of each user: a bag of rows
    reviews,            \* table reviews, by target type: a bag of rows
    rating_average,     \* rating_average of each restaurant and each driver profile
    sessions,           \* bag of requests in progress: what each one has read so far
    response,           \* what the step just taken returned to its caller, until sent
    now                 \* datetime.utcnow()

vars ==
    <<users, restaurants, menu_items, order_items, reviews, rating_average,
      food_orders, parcel_deliveries, total_deliveries, sessions, response, now>>

\* ------------------------------------------------------------------ money
\* Decimal("1.00") and Decimal("0.01") in ten-thousandths.
One == 10000

Cent == 100

\* A non-negative amount given in cents.
Cents(c) == c * Cent

\* A value given in tenths, as a seeded rating average is.
Tenths(t) == t * (One \div 10)

\* What a Numeric(10, 2) column keeps of the Decimal it is given: PostgreSQL
\* rounds to scale 2, half away from zero.
Numeric_10_2(x) ==
    IF x >= 0
    THEN ((x + Cent \div 2) \div Cent) * Cent
    ELSE 0 - (((0 - x) + Cent \div 2) \div Cent) * Cent

\* ------------------------------------------------------------------- rows
Restaurant(active, fee) == [is_active |-> active, delivery_fee |-> fee]

MenuItem(restaurant, price, available) ==
    [restaurant_id |-> restaurant, price |-> price, is_available |-> available]

OrderItem(menu_item, quantity, unit_price, total_price) ==
    [menu_item_id |-> menu_item, quantity |-> quantity,
     unit_price |-> Numeric_10_2(unit_price), total_price |-> Numeric_10_2(total_price)]

FoodOrder_confirmed(customer, restaurant, driver, st, subtotal, delivery_fee, tax, total_amount) ==
    [customer_id |-> customer, restaurant_id |-> restaurant, driver_id |-> driver,
     status |-> st,
     subtotal |-> Numeric_10_2(subtotal), delivery_fee |-> Numeric_10_2(delivery_fee),
     tax |-> Numeric_10_2(tax), total_amount |-> Numeric_10_2(total_amount),
     confirmed_at |-> 1, delivered_at |-> NoTime]

FoodOrder(customer, restaurant, driver, st, subtotal, delivery_fee, tax, total_amount) ==
    [customer_id |-> customer, restaurant_id |-> restaurant, driver_id |-> driver,
     status |-> st,
     subtotal |-> Numeric_10_2(subtotal), delivery_fee |-> Numeric_10_2(delivery_fee),
     tax |-> Numeric_10_2(tax), total_amount |-> Numeric_10_2(total_amount),
     confirmed_at |-> NoTime, delivered_at |-> NoTime]

ParcelDelivery(sender, driver, st, parcel_data, distance_km, fee) ==
    [sender_id |-> sender, driver_id |-> driver, status |-> st,
     picked_up_at |-> NoTime, delivered_at |-> NoTime,
     pickup_latitude |-> parcel_data.pickup_latitude,
     pickup_longitude |-> parcel_data.pickup_longitude,
     delivery_latitude |-> parcel_data.delivery_latitude,
     delivery_longitude |-> parcel_data.delivery_longitude,
     parcel_size |-> parcel_data.parcel_size,
     delivery_fee |-> fee,
     estimated_distance_km |-> distance_km]

\* A row of users with the rows register adds along with it: every user has
\* a user profile, a driver a driver profile as well.  The password hash and
\* the free text are left out.
User(email, role) ==
    [email |-> email, role |-> role, user_profile |-> TRUE,
     driver_profile |-> role = "driver"]

\* A row of reviews; the target type is the part of the table it is in.
Review(reviewer, target, order, rating) ==
    [reviewer_id |-> reviewer, target_id |-> target, order_id |-> order, rating |-> rating]

\* What a handler returns: the HTTP status with the exception's detail or the
\* body's message (for a status update, the status the body echoes).
Response(op, user, id, code, detail) ==
    [op |-> op, user |-> user, id |-> id, status_code |-> code, detail |-> detail]

\* --------------------------------------------------------------- seed data
\* The seeded accounts: one per principal of the model.
UserRole == {"customer", "driver", "admin"}

email_of(u) == u \o "@dago.com"

create_users ==
    SetToBag({User(email_of(u), "customer") : u \in Customers}
             \cup {User(email_of(u), "driver") : u \in Drivers}
             \cup {User(email_of(u), "admin") : u \in Admins})

\* seed_data.py fills an emptied database with orders and parcels of a random
\* status; a driver is attached with probability 0.7 unless the status is one
\* of the unclaimed ones.
\* The seeded catalog, cut down to one restaurant with one menu item.
create_restaurants ==
    [i \in RestaurantIds |-> IF i = 1 THEN Restaurant(TRUE, Cents(399)) ELSE NoRow]

create_menu_items ==
    [i \in MenuItemIds |-> IF i = 1 THEN MenuItem(1, Cents(899), TRUE) ELSE NoRow]

\* A seeded order takes items of its restaurant's menu; its subtotal is the
\* sum of their prices, its tax the column default and its total subtotal
\* plus fee.
create_orders ==
    LET restaurant == create_restaurants[1]
        subtotal == create_menu_items[1].price
        SeedOrder(c, d, st) ==
            FoodOrder(c, 1, d, st, subtotal, restaurant.delivery_fee, 0,
                      subtotal + restaurant.delivery_fee)
    IN  {SeedOrder(c, d, st) : c \in Customers, d \in Drivers \cup {None}, st \in OrderStatus}
          \ {SeedOrder(c, d, st) : c \in Customers, d \in Drivers, st \in {"pending", "confirmed"}}

\* The order_items rows of a seeded order (of the quantities 1..3 the seed
\* draws from, the model takes 1).
create_order_items ==
    LET item == create_menu_items[1]
    IN  <<OrderItem(1, 1, item.price, item.price * 1)>>

\* A seeded parcel: its fee is looked up by size (5.99 for a small one), its
\* distance is drawn from 1.0 to 15.0 and its four coordinates are given.
create_parcels ==
    LET parcel_data == [pickup_latitude |-> 1, pickup_longitude |-> 1,
                        delivery_latitude |-> 2, delivery_longitude |-> 2,
                        parcel_size |-> "small"]
        SeedParcel(c, d, st) == ParcelDelivery(c, d, st, parcel_data, 5 * One, Cents(599))
    IN  {SeedParcel(c, d, st) : c \in Customers, d \in Drivers \cup {None}, st \in ParcelStatus}
          \ {SeedParcel(c, d, st) : c \in Customers, d \in Drivers, st \in {"pending"}}

\* Seeded reviews carry no order_id; their reviewers are sampled from the
\* customers, here two who send no request.  The seed gives a restaurant
\* ratings from 3 to 5 and a driver ratings from 4 to 5.
SeedReviewer(i) == "c" \o ToString(i + 1)

SeedReviews(target, ratings) ==
    SetToBag({Review(SeedReviewer(i), target, NoOrder, ratings[i]) : i \in 1..Len(ratings)})

\* The seed the lifecycle starts from: two reviews of the restaurant, one of
\* each driver, and rating averages drawn independently of them.
create_reviews ==
    [restaurant |-> SeedReviews(1, <<4, 4>>),
     driver |-> SeedReviews("d1", <<5>>) (+) SeedReviews("d2", <<5>>)]

create_rating_average ==
    [restaurant |-> [i \in RestaurantIds |-> IF i = 1 THEN Tenths(45) ELSE 0],
     driver |-> [d \in Drivers |-> Tenths(45)]]

\* The database after seeding (or after clear_data alone).  total_deliveries
\* counts the deliveries made since: the value a profile starts with is taken
\* as 0.
Init ==
    /\ restaurants = create_restaurants
    /\ menu_items = create_menu_items
    /\ food_orders \in [Ids -> create_orders \cup {NoRow}]
    /\ order_items = [i \in Ids |-> IF food_orders[i] = NoRow THEN <<>> ELSE create_order_items]
    /\ parcel_deliveries \in [Ids -> create_parcels \cup {NoRow}]
    /\ \A i \in Ids : food_orders[i] = NoRow \/ parcel_deliveries[i] = NoRow
    /\ reviews = create_reviews
    /\ rating_average = create_rating_average
    /\ total_deliveries = [d \in Drivers |-> 0]
    /\ users = create_users
    /\ sessions = EmptyBag
    /\ response = NoResponse
    /\ now = 1

\* ------------------------------------------------------------------ helpers
\* The tables that no handler of the lifecycle writes: order creation reads
\* the first two and writes the third, the review handlers write the last
\* two.
catalog == <<users, restaurants, menu_items, order_items, reviews, rating_average>>

\* At most MaxSessions requests are in progress at a time.
Free == BagCardinality(sessions) < MaxSessions

InProgress == BagToSet(sessions)

Open(rec) == sessions' = sessions (+) SetToBag({rec})

Close(rec) == sessions' = sessions (-) SetToBag({rec})

Reply(op, user, id, code, detail) == response' = Response(op, user, id, code, detail)

\* An HTTPException: the handler stops, nothing is written.
Raise(op, user, id, code, detail) ==
    /\ Reply(op, user, id, code, detail)
    /\ UNCHANGED <<food_orders, parcel_deliveries, total_deliveries, sessions, now, catalog>>

\* The handler passed its checks and goes on with what it read.
Proceed(rec) ==
    /\ Open(rec)
    /\ response' = NoResponse
    /\ UNCHANGED <<food_orders, parcel_deliveries, total_deliveries, now, catalog>>

\* The session's unit of work: an attribute assigned the value it was loaded
\* with is not modified, and the UPDATE that the commit flushes names only the
\* modified columns.
Changed(loaded, assigned) == assigned # loaded

\* Requests of one driver that are about to add 1 to total_deliveries.
Delivering(d) ==
    LET about == {r \in InProgress : /\ r.op \in {"update_order_status", "update_parcel_status"}
                                     /\ r.user = d
                                     /\ r.new_status = "delivered"}
    IN  BagCardinality([r \in about |-> sessions[r]])

\* Keeps total_deliveries within 0..MaxDeliveries.
CanDeliver(d) == total_deliveries[d] + Delivering(d) < MaxDeliveries

\* The id a new row gets: one that names no row yet (0 when the model has
\* run out of ids).
Unused == {i \in Ids : food_orders[i] = NoRow /\ parcel_deliveries[i] = NoRow}

uuid4 == IF Unused = {} THEN 0 ELSE CHOOSE i \in Unused : \A j \in Unused : i <= j

\* ------------------------------------------------------------- food orders
\* The request body FoodOrderCreate: a restaurant id and a list of
\* OrderItemCreate (menu item id, quantity: any int).
OrderItemCreate == [menu_item_id : MenuItemIds, quantity : -1..MaxQuantity]

ItemLists(n) == UNION {[1..k -> OrderItemCreate] : k \in 0..n}

FoodOrderCreate == [restaurant_id : RestaurantIds, items : ItemLists(MaxItems)]

\* Decimal("0.08"), the tax rate.
TAX == 800

\* The product of two Decimals.
Times(a, b) == (a * b) \div One

\* Lines 28-29: the restaurant has a row and is active.
restaurant_found(restaurant_id) ==
    /\ restaurants[restaurant_id] # NoRow
    /\ restaurants[restaurant_id].is_active

\* Lines 40-41: the menu item has a row and is available.
menu_item_found_ignoring_available(menu_item_id) == menu_items[menu_item_id] # NoRow

menu_item_found(menu_item_id) ==
    /\ menu_items[menu_item_id] # NoRow
    /\ menu_items[menu_item_id].is_available

\* Lines 39-45: the loop stops at the first item that is not found (0: none).
first_unavailable(items) ==
    LET unavailable == {i \in 1..Len(items) : ~menu_item_found(items[i].menu_item_id)}
    IN  IF unavailable = {} THEN 0
        ELSE CHOOSE i \in unavailable : \A j \in unavailable : i <= j

\* Lines 47-55: an item's entry in order_items_to_create.
order_item_to_create_unit_total(item) ==
    LET menu_item == menu_items[item.menu_item_id]
    IN  [menu_item_id |-> item.menu_item_id, quantity |-> item.quantity,
         unit_price |-> menu_item.price, total_price |-> menu_item.price]

order_item_to_create(item) ==
    LET menu_item == menu_items[item.menu_item_id]
        item_total == menu_item.price * item.quantity
    IN  [menu_item_id |-> item.menu_item_id, quantity |-> item.quantity,
         unit_price |-> menu_item.price, total_price |-> item_total]

order_items_to_create(items) == [i \in 1..Len(items) |-> order_item_to_create(items[i])]

\* Lines 36, 48: subtotal, Decimal("0.0") plus every item_total.
RECURSIVE subtotal_of(_)
subtotal_of(to_create) ==
    IF to_create = <<>> THEN 0
    ELSE subtotal_of(SubSeq(to_create, 1, Len(to_create) - 1))
             + to_create[Len(to_create)].total_price

\* Line 58: tax.
tax_of_rounded_down(subtotal) == (Times(subtotal, TAX) \div Cent) * Cent

tax_of(subtotal) == Times(subtotal, TAX)

\* food_orders.py create_food_order, lines 20-86.
create_food_order(u, o, order_data) ==
    IF ~restaurant_found(order_data.restaurant_id)
    THEN Raise("create_food_order", u, 0, 404, "Restaurant not found or inactive")
    ELSE IF first_unavailable(order_data.items) # 0
    THEN Raise("create_food_order", u, 0, 400,
               "Menu item "
                 \o ToString(order_data.items[first_unavailable(order_data.items)].menu_item_id)
                 \o " not available")
    ELSE LET restaurant == restaurants[order_data.restaurant_id]
             to_create == order_items_to_create(order_data.items)
             subtotal == subtotal_of(to_create)
             delivery_fee == restaurant.delivery_fee
             tax == tax_of(subtotal)
             total_amount == subtotal + delivery_fee + tax
         IN  /\ o = uuid4
             /\ food_orders' = [food_orders EXCEPT ![o] =
                    FoodOrder(u, order_data.restaurant_id, None, "pending",
                              subtotal, delivery_fee, tax, total_amount)]
             /\ order_items' = [order_items EXCEPT ![o] =
                    [i \in 1..Len(to_create) |->
                        OrderItem(to_create[i].menu_item_id, to_create[i].quantity,
                                  to_create[i].unit_price, to_create[i].total_price)]]
             /\ Reply("create_food_order", u, o, 201, "created")
             /\ UNCHANGED <<users, restaurants, menu_items, reviews, rating_average,
                            parcel_deliveries, total_deliveries, sessions, now>>

\* The orders that the requests on the order's lifecycle start from: one
\* unit of one menu item that is on offer.
PlainOrders ==
    LET on_offer == {m \in MenuItemIds : /\ menu_item_found(m)
                                          /\ restaurant_found(menu_items[m].restaurant_id)}
    IN  {[restaurant_id |-> menu_items[m].restaurant_id,
          items |-> <<[menu_item_id |-> m, quantity |-> 1]>>] : m \in on_offer}

\* The checks cancel_order makes on the row it read.
cancel_order_owner_or_driver(order, u) == order.customer_id = u \/ order.driver_id = u

cancel_order_owner(order, u) == order.customer_id = u

cancel_order_status_until_ready(order) == order.status \in {"pending", "confirmed", "preparing"}

cancel_order_status(order) == order.status \in {"pending", "confirmed"}

cancel_order_begin(u, o) ==
    /\ Free
    /\ LET order == food_orders[o] IN
       IF order = NoRow
       THEN Raise("cancel_order", u, o, 404, "Order not found")
       ELSE IF ~cancel_order_owner(order, u)
       THEN Raise("cancel_order", u, o, 403, "Not authorized to cancel this order")
       ELSE IF ~cancel_order_status(order)
       THEN Raise("cancel_order", u, o, 400, "Cannot cancel order with status: " \o order.status)
       ELSE Proceed([op |-> "cancel_order", pc |-> "commit", user |-> u, id |-> o,
                     status |-> order.status])

cancel_order_commit_unassigning(r) ==
    /\ r.op = "cancel_order"
    /\ LET o == r.id IN
       /\ food_orders' = [food_orders EXCEPT ![o].status = "cancelled", ![o].driver_id = None]
       /\ Reply("cancel_order", r.user, o, 200, "Order cancelled successfully")
    /\ Close(r)
    /\ UNCHANGED <<parcel_deliveries, total_deliveries, now, catalog>>

cancel_order_commit(r) ==
    /\ r.op = "cancel_order"
    /\ LET o == r.id IN
       /\ food_orders' = [food_orders EXCEPT ![o].status = "cancelled"]
       /\ Reply("cancel_order", r.user, o, 200, "Order cancelled successfully")
    /\ Close(r)
    /\ UNCHANGED <<parcel_deliveries, total_deliveries, now, catalog>>

\* ----------------------------------------------------------------- parcels
\* The request body ParcelDeliveryCreate: four optional coordinates (floats,
\* here whole degrees) and a size.
ParcelSize == {"small", "medium", "large"}

Coordinate == {NoCoordinate, 0, 1, 2}

ParcelDeliveryCreate ==
    [pickup_latitude : Coordinate, pickup_longitude : Coordinate,
     delivery_latitude : Coordinate, delivery_longitude : Coordinate,
     parcel_size : ParcelSize]

\* The product of a Decimal and a Decimal written with one decimal place,
\* given in tenths: Decimal("2.0") is 20 tenths.
TimesTenths(a, tenths) == (a * tenths) \div 10

\* Lines 26-30: the multiplier of each size, in tenths.
size_multiplier_flat == [small |-> 10, medium |-> 10, large |-> 20]

size_multiplier == [small |-> 10, medium |-> 15, large |-> 20]

\* parcels.py calculate_delivery_fee, lines 20-32.  Decimal(str(distance_km))
\* is the float's shortest decimal form, which the model's distances are.
calculate_delivery_fee(distance_km, parcel_size) ==
    LET base_fee == 5 * One
        distance_fee == TimesTenths(distance_km, 20)
    IN  TimesTenths(base_fee + distance_fee, size_multiplier[parcel_size])

\* parcels.py calculate_distance, lines 35-46: the haversine distance with
\* R = 6371, at the coordinates 0, 1 and 2.  The value depends on the
\* two latitudes and on the difference of the longitudes.
calculate_distance(lat1, lon1, lat2, lon2) ==
    LET south == IF lat1 <= lat2 THEN lat1 ELSE lat2
        north == IF lat1 <= lat2 THEN lat2 ELSE lat1
        dlon == IF lon1 <= lon2 THEN lon2 - lon1 ELSE lon1 - lon2
    IN  CASE dlon = 0 /\ south = north -> 0
          [] dlon = 0 /\ north - south = 1 -> 1111949
          [] dlon = 0 /\ north - south = 2 -> 2223899
          [] dlon = 1 /\ south = 0 /\ north = 0 -> 1111949
          [] dlon = 1 /\ south = 0 /\ north = 1 -> 1572494
          [] dlon = 1 /\ south = 0 /\ north = 2 -> 2486293
          [] dlon = 1 /\ south = 1 /\ north = 1 -> 1111780
          [] dlon = 1 /\ south = 1 /\ north = 2 -> 1572254
          [] dlon = 1 /\ south = 2 /\ north = 2 -> 1111272
          [] dlon = 2 /\ south = 0 /\ north = 0 -> 2223899
          [] dlon = 2 /\ south = 0 /\ north = 1 -> 2486293
          [] dlon = 2 /\ south = 0 /\ north = 2 -> 3144748
          [] dlon = 2 /\ south = 1 /\ north = 1 -> 2223560
          [] dlon = 2 /\ south = 1 /\ north = 2 -> 2485687
          [] dlon = 2 /\ south = 2 /\ north = 2 -> 2222544

\* Python's truth value of an Optional[float]: None and 0.0 are false.
bool(x) == x # NoCoordinate /\ x # 0

\* Line 58: all([...]) of the four coordinates.
all_coordinates(parcel_data) ==
    /\ bool(parcel_data.pickup_latitude)
    /\ bool(parcel_data.pickup_longitude)
    /\ bool(parcel_data.delivery_latitude)
    /\ bool(parcel_data.delivery_longitude)

\* Lines 56-66: the distance the fee is computed from.
distance_km_of_undefaulted(parcel_data) ==
    IF all_coordinates(parcel_data)
    THEN calculate_distance(parcel_data.pickup_latitude, parcel_data.pickup_longitude,
                            parcel_data.delivery_latitude, parcel_data.delivery_longitude)
    ELSE 0

distance_km_of(parcel_data) ==
    IF all_coordinates(parcel_data)
    THEN calculate_distance(parcel_data.pickup_latitude, parcel_data.pickup_longitude,
                            parcel_data.delivery_latitude, parcel_data.delivery_longitude)
    ELSE 5 * One

\* parcels.py create_parcel_delivery, lines 49-92.  The delivery_fee column
\* is Numeric(10, 2).
create_parcel_delivery(u, p, parcel_data) ==
    LET distance_km == distance_km_of(parcel_data)
        delivery_fee == calculate_delivery_fee(distance_km, parcel_data.parcel_size)
    IN  /\ p = uuid4
        /\ parcel_deliveries' = [parcel_deliveries EXCEPT ![p] =
               ParcelDelivery(u, None, "pending", parcel_data, distance_km,
                              Numeric_10_2(delivery_fee))]
        /\ Reply("create_parcel_delivery", u, p, 201, "created")
        /\ UNCHANGED <<food_orders, total_deliveries, sessions, now, catalog>>

\* The parcel that the requests on the parcel's lifecycle start from: a small
\* one without coordinates.
PlainParcels ==
    {[pickup_latitude |-> NoCoordinate, pickup_longitude |-> NoCoordinate,
      delivery_latitude |-> NoCoordinate, delivery_longitude |-> NoCoordinate,
      parcel_size |-> "small"]}

\* The checks cancel_parcel makes on the row it read.
cancel_parcel_owner(parcel, u) == parcel.sender_id = u

cancel_parcel_status(parcel) == parcel.status \in {"pending", "assigned"}

cancel_parcel_begin(u, p) ==
    /\ Free
    /\ LET parcel == parcel_deliveries[p] IN
       IF parcel = NoRow
       THEN Raise("cancel_parcel", u, p, 404, "Parcel delivery not found")
       ELSE IF ~cancel_parcel_owner(parcel, u)
       THEN Raise("cancel_parcel", u, p, 403, "Not authorized to cancel this parcel")
       ELSE IF ~cancel_parcel_status(parcel)
       THEN Raise("cancel_parcel", u, p, 400, "Cannot cancel parcel with status: " \o parcel.status)
       ELSE Proceed([op |-> "cancel_parcel", pc |-> "commit", user |-> u, id |-> p,
                     status |-> parcel.status])

cancel_parcel_commit(r) ==
    /\ r.op = "cancel_parcel"
    /\ LET p == r.id IN
       /\ parcel_deliveries' = [parcel_deliveries EXCEPT ![p].status = "cancelled"]
       /\ Reply("cancel_parcel", r.user, p, 200, "Parcel delivery cancelled successfully")
    /\ Close(r)
    /\ UNCHANGED <<food_orders, total_deliveries, now, catalog>>

\* ----------------------------------------------------------------- drivers
\* The views the drivers poll.
get_available_food_orders ==
    {o \in Ids : /\ food_orders[o] # NoRow
                 /\ food_orders[o].driver_id = None
                 /\ food_orders[o].status \in {"confirmed", "ready"}}

get_available_parcels ==
    {p \in Ids : /\ parcel_deliveries[p] # NoRow
                 /\ parcel_deliveries[p].driver_id = None
                 /\ parcel_deliveries[p].status = "pending"}

\* The deliveries a driver is shown as under way.
get_current_deliveries(u) ==
    [food_orders |->
        {o \in Ids : /\ food_orders[o] # NoRow
                     /\ food_orders[o].driver_id = u
                     /\ food_orders[o].status \in {"preparing", "ready", "picked_up"}},
     parcels |->
        {p \in Ids : /\ parcel_deliveries[p] # NoRow
                     /\ parcel_deliveries[p].driver_id = u
                     /\ parcel_deliveries[p].status \in {"assigned", "picked_up", "in_transit"}}]

\* The check accept_food_order makes on the row it read.
accept_food_order_check(order) == order.driver_id = None

accept_food_order_begin(u, o) ==
    /\ Free
    /\ LET order == food_orders[o] IN
       IF order = NoRow
       THEN Raise("accept_food_order", u, o, 404, "Order not found")
       ELSE IF ~accept_food_order_check(order)
       THEN Raise("accept_food_order", u, o, 400, "Order already assigned to a driver")
       ELSE Proceed([op |-> "accept_food_order", pc |-> "commit", user |-> u, id |-> o,
                     status |-> order.status])

\* The status accept_food_order leaves on the row, given the status it read
\* and the status stored now: the UPDATE names the status column only when
\* the handler assigned it.
accept_food_order_status_always(read, stored) == "preparing"

accept_food_order_status(read, stored) ==
    IF read = "confirmed" THEN "preparing" ELSE stored

accept_food_order_commit(r) ==
    /\ r.op = "accept_food_order"
    /\ LET o == r.id
           u == r.user IN
       /\ food_orders' = [food_orders EXCEPT
              ![o].driver_id = u,
              ![o].status = accept_food_order_status(r.status, @)]
       /\ Reply("accept_food_order", u, o, 200, "Order accepted successfully")
    /\ Close(r)
    /\ UNCHANGED <<parcel_deliveries, total_deliveries, now, catalog>>

\* The check accept_parcel makes on the row it read.
accept_parcel_check_status(parcel) == parcel.status \in {"pending", "assigned"}

accept_parcel_check(parcel) == parcel.driver_id = None

accept_parcel_begin(u, p) ==
    /\ Free
    /\ LET parcel == parcel_deliveries[p] IN
       IF parcel = NoRow
       THEN Raise("accept_parcel", u, p, 404, "Parcel not found")
       ELSE IF ~accept_parcel_check(parcel)
       THEN Raise("accept_parcel", u, p, 400, "Parcel already assigned to a driver")
       ELSE Proceed([op |-> "accept_parcel", pc |-> "commit", user |-> u, id |-> p,
                     status |-> parcel.status])

accept_parcel_commit(r) ==
    /\ r.op = "accept_parcel"
    /\ LET p == r.id
           u == r.user IN
       /\ parcel_deliveries' = [parcel_deliveries EXCEPT
              ![p].driver_id = u,
              ![p].status = IF Changed(r.status, "assigned") THEN "assigned" ELSE @]
       /\ Reply("accept_parcel", u, p, 200, "Parcel accepted successfully")
    /\ Close(r)
    /\ UNCHANGED <<food_orders, total_deliveries, now, catalog>>

\* The check update_order_status makes on the row it read.
update_order_status_check_or_unassigned(order, u) == order.driver_id \in {u, None}

update_order_status_check(order, u) == order.driver_id = u

\* Lines 111-126: read the order, check the caller, assign status and, for
\* delivered, delivered_at.
update_order_status_begin(u, o, new_status) ==
    /\ Free
    /\ LET order == food_orders[o] IN
       IF order = NoRow
       THEN Raise("update_order_status", u, o, 404, "Order not found")
       ELSE IF ~update_order_status_check(order, u)
       THEN Raise("update_order_status", u, o, 403, "Not authorized to update this order")
       ELSE /\ new_status = "delivered" => CanDeliver(u)
            /\ Proceed([op |-> "update_order_status",
                           pc |-> IF new_status = "delivered" THEN "profile" ELSE "commit",
                           user |-> u, id |-> o,
                           status |-> order.status,
                           new_status |-> new_status, at |-> now, total |-> 0])

\* Lines 129-131: read the driver's profile (every driver has one) and add 1
\* to the counter read.
update_order_status_profile(r) ==
    /\ r.op = "update_order_status"
    /\ r.pc = "profile"
    /\ sessions' = (sessions (-) SetToBag({r})) (+)
           SetToBag({[r EXCEPT !.pc = "commit", !.total = total_deliveries[r.user] + 1]})
    /\ response' = NoResponse
    /\ UNCHANGED <<food_orders, parcel_deliveries, total_deliveries, now, catalog>>

\* Line 133: commit.
update_order_status_commit_delivered_after_pickup(r) ==
    /\ r.op = "update_order_status"
    /\ r.pc = "commit"
    /\ LET o == r.id
           u == r.user
           new_status == r.new_status IN
       /\ food_orders' = [food_orders EXCEPT
              ![o].status = IF new_status = "delivered" /\ r.status # "picked_up"
                            THEN @ ELSE new_status,
              ![o].delivered_at = IF new_status = "delivered" THEN r.at ELSE @]
       /\ total_deliveries' =
              IF new_status = "delivered"
              THEN [total_deliveries EXCEPT ![u] = r.total]
              ELSE total_deliveries
       /\ Reply("update_order_status", u, o, 200, new_status)
    /\ Close(r)
    /\ UNCHANGED <<parcel_deliveries, now, catalog>>

update_order_status_commit(r) ==
    /\ r.op = "update_order_status"
    /\ r.pc = "commit"
    /\ LET o == r.id
           u == r.user
           new_status == r.new_status IN
       /\ food_orders' = [food_orders EXCEPT
              ![o].status = IF Changed(r.status, new_status) THEN new_status ELSE @,
              ![o].delivered_at = IF new_status = "delivered" THEN r.at ELSE @]
       /\ total_deliveries' =
              IF new_status = "delivered"
              THEN [total_deliveries EXCEPT ![u] = r.total]
              ELSE total_deliveries
       /\ Reply("update_order_status", u, o, 200, new_status)
    /\ Close(r)
    /\ UNCHANGED <<parcel_deliveries, now, catalog>>

update_parcel_status_check_any_driver(parcel, u) == TRUE

\* The check update_parcel_status makes on the row it read.
update_parcel_status_check(parcel, u) == parcel.driver_id = u

\* Lines 146-163.
update_parcel_status_begin(u, p, new_status) ==
    /\ Free
    /\ LET parcel == parcel_deliveries[p] IN
       IF parcel = NoRow
       THEN Raise("update_parcel_status", u, p, 404, "Parcel not found")
       ELSE IF ~update_parcel_status_check(parcel, u)
       THEN Raise("update_parcel_status", u, p, 403, "Not authorized to update this parcel")
       ELSE /\ new_status = "delivered" => CanDeliver(u)
            /\ Proceed([op |-> "update_parcel_status",
                           pc |-> IF new_status = "delivered" THEN "profile" ELSE "commit",
                           user |-> u, id |-> p,
                           status |-> parcel.status,
                           new_status |-> new_status, at |-> now, total |-> 0])

\* Lines 166-168.
update_parcel_status_profile(r) ==
    /\ r.op = "update_parcel_status"
    /\ r.pc = "profile"
    /\ sessions' = (sessions (-) SetToBag({r})) (+)
           SetToBag({[r EXCEPT !.pc = "commit", !.total = total_deliveries[r.user] + 1]})
    /\ response' = NoResponse
    /\ UNCHANGED <<food_orders, parcel_deliveries, total_deliveries, now, catalog>>

\* Line 170: commit.
update_parcel_status_commit(r) ==
    /\ r.op = "update_parcel_status"
    /\ r.pc = "commit"
    /\ LET p == r.id
           u == r.user
           new_status == r.new_status IN
       /\ parcel_deliveries' = [parcel_deliveries EXCEPT
              ![p].status = IF Changed(r.status, new_status) THEN new_status ELSE @,
              ![p].picked_up_at = IF new_status = "picked_up" THEN r.at ELSE @,
              ![p].delivered_at = IF new_status = "delivered" THEN r.at ELSE @]
       /\ total_deliveries' =
              IF new_status = "delivered"
              THEN [total_deliveries EXCEPT ![u] = r.total]
              ELSE total_deliveries
       /\ Reply("update_parcel_status", u, p, 200, new_status)
    /\ Close(r)
    /\ UNCHANGED <<food_orders, now, catalog>>

\* ----------------------------------------------------------------- reviews
\* The request body ReviewCreate: rating is an int with ge=1 and le=5.
MaxRating == 5

ReviewCreate == [rating : 1..MaxRating]

\* The rows of a part of the reviews table that target one entity, and those
\* a reviewer wrote on one job.
reviews_of(table, target) ==
    LET rows == {row \in BagToSet(table) : row.target_id = target}
    IN  [row \in rows |-> table[row]]

existing_review(table, job, reviewer) ==
    \E row \in BagToSet(table) : row.order_id = job /\ row.reviewer_id = reviewer

\* sum(r.rating for r in rows) and len(rows).
RECURSIVE sum_of_ratings(_, _)
sum_of_ratings(table, rows) ==
    IF rows = {}
    THEN 0
    ELSE LET row == CHOOSE r \in rows : TRUE
         IN  table[row] * row.rating + sum_of_ratings(table, rows \ {row})

len(table) == BagCardinality(table)

\* Python's int / int: the float nearest to the quotient, which the Float
\* column stores as it is; the model keeps four decimals of it.
true_div(a, b) == (2 * a * One + b) \div (2 * b)

\* A review request at its step pc, with what it has read so far.
ReviewRequest(op, pc, u, j, rating, target, avg, loaded) ==
    [op |-> op, pc |-> pc, user |-> u, id |-> j, rating |-> rating,
     target |-> target, avg_rating |-> avg, loaded |-> loaded]

\* The session goes on to its next statement.
Continue(r, next) ==
    /\ sessions' = (sessions (-) SetToBag({r})) (+) SetToBag({next})
    /\ response' = NoResponse

\* The checks review_restaurant makes on the order it read.
review_restaurant_owner(order, u) == order.customer_id = u

review_restaurant_status_from_pickup(order) == order.status \in {"picked_up", "delivered"}

review_restaurant_status(order) == order.status = "delivered"

\* food_orders.py review_restaurant, lines 161-200: the order and the checks
\* on it, then the query for a review of the caller on this order.
review_restaurant_begin(u, o, review_data) ==
    /\ Free
    /\ LET order == food_orders[o] IN
       IF order = NoRow
       THEN Raise("review_restaurant", u, o, 404, "Order not found")
       ELSE IF ~review_restaurant_owner(order, u)
       THEN Raise("review_restaurant", u, o, 403, "Not authorized to review this order")
       ELSE IF ~review_restaurant_status(order)
       THEN Raise("review_restaurant", u, o, 400, "Can only review delivered orders")
       ELSE IF existing_review(reviews.restaurant, o, u)
       THEN Raise("review_restaurant", u, o, 400, "Order already reviewed")
       ELSE Proceed(ReviewRequest("review_restaurant", "insert", u, o, review_data.rating,
                                  order.restaurant_id, 0, 0))

\* Lines 202-213: the review is inserted and committed.
review_restaurant_insert(r) ==
    /\ r.op = "review_restaurant"
    /\ r.pc = "insert"
    /\ reviews' = [reviews EXCEPT !.restaurant =
                      @ (+) SetToBag({Review(r.user, r.target, r.id, r.rating)})]
    /\ Continue(r, [r EXCEPT !.pc = "read"])
    /\ UNCHANGED <<users, restaurants, menu_items, order_items, rating_average,
                   food_orders, parcel_deliveries, total_deliveries, now>>

\* Lines 215-222: the reviews of the order's restaurant are read and averaged,
\* the restaurant is read and assigned the average.  No review is deleted
\* while a review request is in progress, so the review just inserted is
\* among them.
review_restaurant_read(r) ==
    /\ r.op = "review_restaurant"
    /\ r.pc = "read"
    /\ LET target == food_orders[r.id].restaurant_id
           restaurant_reviews == reviews_of(reviews.restaurant, target)
           avg_rating == true_div(sum_of_ratings(restaurant_reviews,
                                                 BagToSet(restaurant_reviews)),
                                  len(restaurant_reviews))
       IN  Continue(r, [r EXCEPT !.pc = "store", !.target = target,
                                 !.avg_rating = avg_rating,
                                 !.loaded = rating_average.restaurant[target]])
    /\ UNCHANGED <<food_orders, parcel_deliveries, total_deliveries, now, catalog>>

\* Lines 223-226: the commit writes rating_average if the assignment changed
\* it, and the review is returned.
review_restaurant_store(r) ==
    /\ r.op = "review_restaurant"
    /\ r.pc = "store"
    /\ rating_average' =
          IF Changed(r.loaded, r.avg_rating)
          THEN [rating_average EXCEPT !.restaurant[r.target] = r.avg_rating]
          ELSE rating_average
    /\ Reply("review_restaurant", r.user, r.id, 201, "created")
    /\ Close(r)
    /\ UNCHANGED <<users, restaurants, menu_items, order_items, reviews,
                   food_orders, parcel_deliveries, total_deliveries, now>>

\* The checks review_driver makes on the parcel it read.
review_driver_owner(parcel, u) == parcel.sender_id = u

review_driver_status(parcel) == parcel.status = "delivered"

\* parcels.py review_driver, lines 167-212.
review_driver_begin(u, p, review_data) ==
    /\ Free
    /\ LET parcel == parcel_deliveries[p] IN
       IF parcel = NoRow
       THEN Raise("review_driver", u, p, 404, "Parcel delivery not found")
       ELSE IF ~review_driver_owner(parcel, u)
       THEN Raise("review_driver", u, p, 403, "Not authorized to review this delivery")
       ELSE IF ~review_driver_status(parcel)
       THEN Raise("review_driver", u, p, 400, "Can only review delivered parcels")
       ELSE IF parcel.driver_id = None
       THEN Raise("review_driver", u, p, 400, "No driver assigned to this delivery")
       ELSE IF existing_review(reviews.driver, p, u)
       THEN Raise("review_driver", u, p, 400, "Delivery already reviewed")
       ELSE Proceed(ReviewRequest("review_driver", "insert", u, p, review_data.rating,
                                  parcel.driver_id, 0, 0))

\* Lines 214-225.
review_driver_insert(r) ==
    /\ r.op = "review_driver"
    /\ r.pc = "insert"
    /\ reviews' = [reviews EXCEPT !.driver =
                      @ (+) SetToBag({Review(r.user, r.target, r.id, r.rating)})]
    /\ Continue(r, [r EXCEPT !.pc = "read"])
    /\ UNCHANGED <<users, restaurants, menu_items, order_items, rating_average,
                   food_orders, parcel_deliveries, total_deliveries, now>>

\* Lines 227-236: the commit expired the parcel, so parcel.driver_id is read
\* again; every driver has a profile.
review_driver_read(r) ==
    /\ r.op = "review_driver"
    /\ r.pc = "read"
    /\ LET target == parcel_deliveries[r.id].driver_id
           driver_reviews == reviews_of(reviews.driver, target)
           avg_rating == true_div(sum_of_ratings(driver_reviews, BagToSet(driver_reviews)),
                                  len(driver_reviews))
       IN  Continue(r, [r EXCEPT !.pc = "store", !.target = target,
                                 !.avg_rating = avg_rating,
                                 !.loaded = rating_average.driver[target]])
    /\ UNCHANGED <<food_orders, parcel_deliveries, total_deliveries, now, catalog>>

\* Lines 237-240.
review_driver_store(r) ==
    /\ r.op = "review_driver"
    /\ r.pc = "store"
    /\ rating_average' =
          IF Changed(r.loaded, r.avg_rating)
          THEN [rating_average EXCEPT !.driver[r.target] = r.avg_rating]
          ELSE rating_average
    /\ Reply("review_driver", r.user, r.id, 201, "created")
    /\ Close(r)
    /\ UNCHANGED <<users, restaurants, menu_items, order_items, reviews,
                   food_orders, parcel_deliveries, total_deliveries, now>>

\* ------------------------------------------------------------------- admin
\* The request body RestaurantUpdate with the fields the model has: each may
\* be set or left out.
NewFees == {Cents(499)}

RestaurantUpdate ==
    {[delivery_fee |-> f] : f \in NewFees}
      \cup {[is_active |-> a] : a \in BOOLEAN}
      \cup {[is_active |-> a, delivery_fee |-> f] : a \in BOOLEAN, f \in NewFees}

\* Lines 110-111: setattr for every field that the request set.
set_fields(restaurant, restaurant_data) ==
    [field \in DOMAIN restaurant |->
        IF field \in DOMAIN restaurant_data
        THEN restaurant_data[field]
        ELSE restaurant[field]]

\* admin.py update_restaurant, lines 95-115, behind require_role([ADMIN]).
update_restaurant_and_orders(u, restaurant_id, restaurant_data) ==
    IF restaurants[restaurant_id] = NoRow
    THEN Raise("update_restaurant", u, restaurant_id, 404, "Restaurant not found")
    ELSE LET restaurant == set_fields(restaurants[restaurant_id], restaurant_data)
         IN  /\ restaurants' = [restaurants EXCEPT ![restaurant_id] = restaurant]
             /\ food_orders' =
                   [o \in Ids |->
                       IF food_orders[o] # NoRow /\ food_orders[o].restaurant_id = restaurant_id
                       THEN [food_orders[o] EXCEPT !.delivery_fee = restaurant.delivery_fee]
                       ELSE food_orders[o]]
             /\ Reply("update_restaurant", u, restaurant_id, 200, "updated")
             /\ UNCHANGED <<users, menu_items, order_items, reviews, rating_average,
                            parcel_deliveries, total_deliveries, sessions, now>>

update_restaurant(u, restaurant_id, restaurant_data) ==
    IF restaurants[restaurant_id] = NoRow
    THEN Raise("update_restaurant", u, restaurant_id, 404, "Restaurant not found")
    ELSE /\ restaurants' = [restaurants EXCEPT ![restaurant_id] =
                                set_fields(@, restaurant_data)]
         /\ Reply("update_restaurant", u, restaurant_id, 200, "updated")
         /\ UNCHANGED <<users, menu_items, order_items, reviews, rating_average,
                        food_orders, parcel_deliveries, total_deliveries, sessions, now>>

\* admin.py delete_review, lines 221-238: the row with the id given, if
\* there is one, is deleted; nothing else is written.  `review` is that row
\* (a row has its own id), `table` the target type it is of.
delete_review(u, table, review) ==
    IF review \notin BagToSet(reviews[table])
    THEN Raise("delete_review", u, 0, 404, "Review not found")
    ELSE /\ reviews' = [reviews EXCEPT ![table] = @ (-) SetToBag({review})]
         /\ Reply("delete_review", u, 0, 200, "Review deleted successfully")
         /\ UNCHANGED <<users, restaurants, menu_items, order_items, rating_average,
                        food_orders, parcel_deliveries, total_deliveries, sessions, now>>

\* ---------------------------------------------------------------- register
\* The emails a registration can name: a seeded one and two new ones.
Emails == {email_of("c1"), "new1@dago.com", "new2@dago.com"}

UserRegister == [email : Emails, role : UserRole]

\* The rows of users with this email that the SELECT sees.
existing_user(email) == {row \in BagToSet(users) : row.email = email}

\* auth.py lines 25-31: look the email up, refuse when it is there.
register_begin(user_data) ==
    /\ Free
    /\ IF existing_user(user_data.email) # {}
       THEN Raise("register", user_data.email, 0, 400, "Email already registered")
       ELSE Proceed([op |-> "register", pc |-> "flush", user |-> user_data.email,
                     id |-> 0, role |-> user_data.role])

\* Lines 34-42: db.flush() sends the INSERT.  users.email has a unique index
\* (models/user.py line 21): the INSERT waits while another transaction's
\* uncommitted row holds the email, and fails with an IntegrityError, which
\* no handler catches (500), when a committed row holds it.
register_flush_unconstrained(r) ==
    /\ r.op = "register"
    /\ r.pc = "flush"
    /\ Continue(r, [r EXCEPT !.pc = "commit"])
    /\ UNCHANGED <<food_orders, parcel_deliveries, total_deliveries, now, catalog>>

register_flush(r) ==
    /\ r.op = "register"
    /\ r.pc = "flush"
    /\ ~\E q \in InProgress : q.op = "register" /\ q.pc = "commit" /\ q.user = r.user
    /\ IF existing_user(r.user) # {}
       THEN /\ Close(r)
            /\ Reply("register", r.user, 0, 500, "IntegrityError")
            /\ UNCHANGED <<food_orders, parcel_deliveries, total_deliveries, now, catalog>>
       ELSE /\ Continue(r, [r EXCEPT !.pc = "commit"])
            /\ UNCHANGED <<food_orders, parcel_deliveries, total_deliveries, now, catalog>>

\* Lines 44-59: the profiles are added and the transaction commits.
register_commit(r) ==
    /\ r.op = "register"
    /\ r.pc = "commit"
    /\ users' = users (+) SetToBag({User(r.user, r.role)})
    /\ Reply("register", r.user, 0, 201, "created")
    /\ Close(r)
    /\ UNCHANGED <<food_orders, parcel_deliveries, total_deliveries, now,
                   restaurants, menu_items, order_items, reviews, rating_average>>

\* ------------------------------------------------------------------ clock
Tick ==
    /\ now < MaxTime
    /\ now' = now + 1
    /\ response' = NoResponse
    /\ UNCHANGED <<food_orders, parcel_deliveries, total_deliveries, sessions, catalog>>

\* The reply of the step just taken goes out to its caller.
Send ==
    /\ response # NoResponse
    /\ response' = NoResponse
    /\ UNCHANGED <<food_orders, parcel_deliveries, total_deliveries, sessions, now, catalog>>

\* A step of a handler that makes a job.
Creations ==
    \/ \E u \in Customers, o \in Ids, order_data \in PlainOrders :
           create_food_order(u, o, order_data)
    \/ \E u \in Customers, p \in Ids, parcel_data \in PlainParcels :
           create_parcel_delivery(u, p, parcel_data)

\* A step of a handler that works on a job there is, called by one of
\* `callers` (cancel) or one of `drivers` (claim and status update).
Lifecycle(callers, drivers) ==
    \/ \E u \in callers, o \in Ids : cancel_order_begin(u, o)
    \/ \E r \in InProgress : cancel_order_commit(r)
    \/ \E u \in callers, p \in Ids : cancel_parcel_begin(u, p)
    \/ \E r \in InProgress : cancel_parcel_commit(r)
    \/ \E u \in drivers, o \in Ids : accept_food_order_begin(u, o)
    \/ \E r \in InProgress : accept_food_order_commit(r)
    \/ \E u \in drivers, p \in Ids : accept_parcel_begin(u, p)
    \/ \E r \in InProgress : accept_parcel_commit(r)
    \/ \E u \in drivers, o \in Ids, new_status \in OrderStatus :
           update_order_status_begin(u, o, new_status)
    \/ \E r \in InProgress : update_order_status_profile(r)
    \/ \E r \in InProgress : update_order_status_commit(r)
    \/ \E u \in drivers, p \in Ids, new_status \in ParcelStatus :
           update_parcel_status_begin(u, p, new_status)
    \/ \E r \in InProgress : update_parcel_status_profile(r)
    \/ \E r \in InProgress : update_parcel_status_commit(r)

\* A step of some request handler of the lifecycle.
Requests == Creations \/ Lifecycle(Users, Drivers)

\* Handlers step in any order; a reply is on its way out before the next
\* step is taken.
Next ==
    \/ response = NoResponse /\ Requests
    \/ Send

\* Requests with the clock standing still: no handler reads a timestamp, so
\* status and driver evolve the same way whether or not time passes.  Orders
\* are made from PlainOrders: no handler but create_food_order reads or
\* writes an amount or an item.
Spec == Init /\ [][Next]_vars

\* The same requests against a database that holds the catalog but no order
\* and no parcel yet: every job was made by create_food_order or
\* create_parcel_delivery.
InitEmpty ==
    /\ restaurants = create_restaurants
    /\ menu_items = create_menu_items
    /\ order_items = [i \in Ids |-> <<>>]
    /\ food_orders = [i \in Ids |-> NoRow]
    /\ parcel_deliveries = [i \in Ids |-> NoRow]
    /\ reviews = [restaurant |-> EmptyBag, driver |-> EmptyBag]
    /\ rating_average = [restaurant |-> [i \in RestaurantIds |-> 0], driver |-> [d \in Drivers |-> 0]]
    /\ total_deliveries = [d \in Drivers |-> 0]
    /\ users = create_users
    /\ sessions = EmptyBag
    /\ response = NoResponse
    /\ now = 1

SpecApi == InitEmpty /\ [][Next]_vars

\* Order creation against any catalog the admin endpoints can leave behind:
\* restaurants active or not, menu items of either restaurant, on offer or
\* not, and ids that name no row.
Fees == {Cents(399)}

Prices == {Cents(550), Cents(899), Cents(1000)}

InitOrders ==
    /\ restaurants \in
          [RestaurantIds -> {NoRow} \cup {Restaurant(a, f) : a \in BOOLEAN, f \in Fees}]
    /\ menu_items \in
          [MenuItemIds -> {NoRow} \cup {MenuItem(r, p, a) :
                                          r \in RestaurantIds, p \in Prices, a \in BOOLEAN}]
    /\ \A m \in MenuItemIds :
          menu_items[m] # NoRow => restaurants[menu_items[m].restaurant_id] # NoRow
    /\ order_items = [i \in Ids |-> <<>>]
    /\ food_orders = [i \in Ids |-> NoRow]
    /\ parcel_deliveries = [i \in Ids |-> NoRow]
    /\ reviews = [restaurant |-> EmptyBag, driver |-> EmptyBag]
    /\ rating_average = [restaurant |-> [i \in RestaurantIds |-> 0], driver |-> [d \in Drivers |-> 0]]
    /\ total_deliveries = [d \in Drivers |-> 0]
    /\ users = create_users
    /\ sessions = EmptyBag
    /\ response = NoResponse
    /\ now = 1

NextOrders ==
    \/ /\ response = NoResponse
       /\ \E u \in Customers, o \in Ids, order_data \in FoodOrderCreate :
             create_food_order(u, o, order_data)
    \/ Send

SpecOrders == InitOrders /\ [][NextOrders]_vars

\* Parcel creation with any coordinates and size, against a database without
\* jobs.
NextParcels ==
    \/ /\ response = NoResponse
       /\ \E u \in Customers, p \in Ids, parcel_data \in ParcelDeliveryCreate :
             create_parcel_delivery(u, p, parcel_data)
    \/ Send

SpecParcels == InitEmpty /\ [][NextParcels]_vars

\* Review requests against a seeded database: a job of any status, and up to
\* MaxSeedReviews seeded reviews of the restaurant and of each driver (the
\* ratings vary for the entity that the job's review targets).
MaxSeedReviews == 2

Ratings(lo, hi) == UNION {[1..k -> lo..hi] : k \in 0..MaxSeedReviews}

InitReviews ==
    /\ restaurants = create_restaurants
    /\ menu_items = create_menu_items
    /\ food_orders \in [Ids -> create_orders \cup {NoRow}]
    /\ order_items = [i \in Ids |-> IF food_orders[i] = NoRow THEN <<>> ELSE create_order_items]
    /\ parcel_deliveries \in [Ids -> create_parcels \cup {NoRow}]
    /\ \A i \in Ids : food_orders[i] = NoRow \/ parcel_deliveries[i] = NoRow
    /\ \E of_restaurant \in Ratings(3, 5), of_driver \in Ratings(4, 5) :
          /\ (\A i \in Ids : food_orders[i] = NoRow) => of_restaurant = <<4, 4>>
          /\ (\A i \in Ids : parcel_deliveries[i] = NoRow) => of_driver = <<5>>
          /\ reviews = [restaurant |-> SeedReviews(1, of_restaurant),
                        driver |-> SeedReviews("d1", of_driver) (+) SeedReviews("d2", of_driver)]
    /\ rating_average = create_rating_average
    /\ total_deliveries = [d \in Drivers |-> 0]
    /\ users = create_users
    /\ sessions = EmptyBag
    /\ response = NoResponse
    /\ now = 1

\* The first step of a review request, and the later ones.
ReviewBegins ==
    \/ \E u \in Users, o \in Ids, review_data \in ReviewCreate :
           review_restaurant_begin(u, o, review_data)
    \/ \E u \in Users, p \in Ids, review_data \in ReviewCreate :
           review_driver_begin(u, p, review_data)

ReviewSteps ==
    \/ \E r \in InProgress : review_restaurant_insert(r)
    \/ \E r \in InProgress : review_restaurant_read(r)
    \/ \E r \in InProgress : review_restaurant_store(r)
    \/ \E r \in InProgress : review_driver_insert(r)
    \/ \E r \in InProgress : review_driver_read(r)
    \/ \E r \in InProgress : review_driver_store(r)

NextReviews ==
    \/ response = NoResponse /\ (ReviewBegins \/ ReviewSteps)
    \/ Send

SpecReviews == InitReviews /\ [][NextReviews]_vars

\* Review requests served one after another: a request begins when no other
\* is in progress.
NextSequential ==
    \/ response = NoResponse /\ sessions = EmptyBag /\ ReviewBegins
    \/ response = NoResponse /\ ReviewSteps
    \/ Send

SpecSequential == InitReviews /\ [][NextSequential]_vars

\* Every kind of request on a seeded job (its driver, if it has one, is any
\* of the drivers): the customer and one driver send the requests of the
\* lifecycle, the customer reviews with the rating 5 and the admin changes
\* the restaurant's delivery fee.
PlainReviews == {review_data \in ReviewCreate : review_data.rating = MaxRating}

PlainUpdates == {[delivery_fee |-> f] : f \in NewFees}

OneDriver == {CHOOSE d \in Drivers : TRUE}

InitAll ==
    /\ Init
    /\ \E i \in Ids : food_orders[i] # NoRow \/ parcel_deliveries[i] # NoRow

NextAll ==
    \/ response = NoResponse /\ Lifecycle(Customers, OneDriver)
    \/ /\ response = NoResponse
       /\ \E u \in Customers, o \in Ids, review_data \in PlainReviews :
             review_restaurant_begin(u, o, review_data)
    \/ /\ response = NoResponse
       /\ \E u \in Customers, p \in Ids, review_data \in PlainReviews :
             review_driver_begin(u, p, review_data)
    \/ response = NoResponse /\ ReviewSteps
    \/ /\ response = NoResponse
       /\ \E u \in Admins, restaurant_id \in RestaurantIds, restaurant_data \in PlainUpdates :
             update_restaurant(u, restaurant_id, restaurant_data)
    \/ Send

SpecAll == InitAll /\ [][NextAll]_vars

\* Registrations, two at a time, against the seeded accounts.
NextRegister ==
    \/ /\ response = NoResponse
       /\ \/ \E user_data \in UserRegister : register_begin(user_data)
          \/ \E r \in InProgress : register_flush(r)
          \/ \E r \in InProgress : register_commit(r)
    \/ Send

SpecRegister == InitEmpty /\ [][NextRegister]_vars

\* Deliveries of several jobs at a time: every job is under way with its
\* driver, no delivery has been counted yet, and a driver reports a job
\* delivered once, while no other request on that job is in progress.
CounterIds == 1..MaxDeliveries

UnderWay ==
    {order \in create_orders :
        order.driver_id \in Drivers /\ order.status \in {"preparing", "ready", "picked_up"}}
    \cup {parcel \in create_parcels :
             /\ parcel.driver_id \in Drivers
             /\ parcel.status \in {"assigned", "picked_up", "in_transit"}}

InitCounter ==
    /\ restaurants = create_restaurants
    /\ menu_items = create_menu_items
    /\ food_orders \in [CounterIds -> {NoRow} \cup (UnderWay \cap create_orders)]
    /\ parcel_deliveries \in [CounterIds -> {NoRow} \cup (UnderWay \cap create_parcels)]
    /\ \A i \in CounterIds : (food_orders[i] = NoRow) # (parcel_deliveries[i] = NoRow)
    /\ order_items = [i \in CounterIds |->
                        IF food_orders[i] = NoRow THEN <<>> ELSE create_order_items]
    /\ reviews = create_reviews
    /\ rating_average = create_rating_average
    /\ total_deliveries = [d \in Drivers |-> 0]
    /\ users = create_users
    /\ sessions = EmptyBag
    /\ response = NoResponse
    /\ now = 1

Untouched(j) == \A r \in InProgress : r.id # j

NextCounter ==
    \/ /\ response = NoResponse
       /\ \/ \E u \in Drivers, o \in CounterIds :
                /\ Untouched(o)
                /\ food_orders[o] # NoRow => food_orders[o].status # "delivered"
                /\ update_order_status_begin(u, o, "delivered")
          \/ \E r \in InProgress : update_order_status_profile(r)
          \/ \E r \in InProgress : update_order_status_commit(r)
          \/ \E u \in Drivers, p \in CounterIds :
                /\ Untouched(p)
                /\ parcel_deliveries[p] # NoRow => parcel_deliveries[p].status # "delivered"
                /\ update_parcel_status_begin(u, p, "delivered")
          \/ \E r \in InProgress : update_parcel_status_profile(r)
          \/ \E r \in InProgress : update_parcel_status_commit(r)
    \/ Send

SpecCounter == InitCounter /\ [][NextCounter]_vars

\* Reviews served one after another, and an administrator who deletes
\* reviews in between.  The rows a delete can name: those stored, and one
\* that is not.
NoReview == [restaurant |-> Review(None, 0, NoOrder, 0), driver |-> Review(None, None, NoOrder, 0)]

NextModeration ==
    \/ response = NoResponse /\ sessions = EmptyBag /\ ReviewBegins
    \/ response = NoResponse /\ ReviewSteps
    \/ /\ response = NoResponse
       /\ sessions = EmptyBag
       /\ \E u \in Admins, table \in {"restaurant", "driver"} :
             \E review \in BagToSet(reviews[table]) \cup {NoReview[table]} :
                delete_review(u, table, review)
    \/ Send

SpecModeration == InitReviews /\ [][NextModeration]_vars

\* calculate_delivery_fee called on its own: a call with a distance of up to
\* MaxDistance km either way, in steps of half a km, and a size, and its
\* return with the fee.
MaxDistance == 5

Distances == {k * (One \div 2) : k \in (0 - 2 * MaxDistance)..(2 * MaxDistance)}

FeeCall(distance_km, parcel_size) ==
    [op |-> "calculate_delivery_fee", pc |-> "call", user |-> None, id |-> 0,
     distance_km |-> distance_km, parcel_size |-> parcel_size, total_fee |-> 0]

InitFee ==
    /\ restaurants = create_restaurants
    /\ menu_items = create_menu_items
    /\ order_items = [i \in Ids |-> <<>>]
    /\ food_orders = [i \in Ids |-> NoRow]
    /\ parcel_deliveries = [i \in Ids |-> NoRow]
    /\ reviews = [restaurant |-> EmptyBag, driver |-> EmptyBag]
    /\ rating_average = [restaurant |-> [i \in RestaurantIds |-> 0], driver |-> [d \in Drivers |-> 0]]
    /\ total_deliveries = [d \in Drivers |-> 0]
    /\ users = create_users
    /\ \E distance_km \in Distances, parcel_size \in ParcelSize :
          sessions = SetToBag({FeeCall(distance_km, parcel_size)})
    /\ response = NoResponse
    /\ now = 1

calculate_delivery_fee_return(r) ==
    /\ r.op = "calculate_delivery_fee"
    /\ r.pc = "call"
    /\ Continue(r, [r EXCEPT !.pc = "return",
                             !.total_fee = calculate_delivery_fee(r.distance_km, r.parcel_size)])
    /\ UNCHANGED <<food_orders, parcel_deliveries, total_deliveries, now, catalog>>

NextFee == \E r \in InProgress : calculate_delivery_fee_return(r)

SpecFee == InitFee /\ [][NextFee]_vars

\* Requests while time passes.
NextClock ==
    \/ response = NoResponse /\ (Requests \/ Tick)
    \/ Send

SpecClock == Init /\ [][NextClock]_vars

SpecApiClock == InitEmpty /\ [][NextClock]_vars

\* ================================================================== claims
IsOrder(j) == food_orders[j] # NoRow

IsParcel(j) == parcel_deliveries[j] # NoRow

\* The step just taken answered `op` on job j with HTTP status `code`.
Answered(op, j, code) ==
    /\ response'.op = op
    /\ response'.id = j
    /\ response'.status_code = code

Tables == <<food_orders, parcel_deliveries, total_deliveries>>

\* The step just taken is the commit of request r, on an order or on a parcel.
OrderCommit(r) ==
    \/ cancel_order_commit(r)
    \/ accept_food_order_commit(r)
    \/ update_order_status_commit(r)

ParcelCommit(r) ==
    \/ cancel_parcel_commit(r)
    \/ accept_parcel_commit(r)
    \/ update_parcel_status_commit(r)

\* C1: of the claims that distinct drivers make on one job, one reports
\* success and the others are refused: a driver is told the job is theirs
\* only when no other driver holds it, and the job's driver field is then
\* that driver.
C1_OneClaimWins ==
    [][\A j \in Ids :
          /\ Answered("accept_food_order", j, 200)
                => /\ food_orders[j].driver_id \in {None, response'.user}
                   /\ food_orders'[j].driver_id = response'.user
          /\ Answered("accept_parcel", j, 200)
                => /\ parcel_deliveries[j].driver_id \in {None, response'.user}
                   /\ parcel_deliveries'[j].driver_id = response'.user]_vars

\* C2: a claim that arrives when the parcel already has a driver is refused
\* with "Parcel already assigned to a driver" and changes nothing.
C2_LaterClaimRefused ==
    [][\A u \in Drivers, p \in Ids :
          (/\ IsParcel(p)
           /\ parcel_deliveries[p].driver_id # None
           /\ accept_parcel_begin(u, p))
          => /\ response' = Response("accept_parcel", u, p, 400,
                                     "Parcel already assigned to a driver")
             /\ UNCHANGED <<Tables, sessions>>]_vars

C2_Witness ==
    /\ response.op = "accept_parcel"
    /\ response.status_code = 400
    /\ parcel_deliveries[response.id].status = "assigned"
    /\ parcel_deliveries[response.id].driver_id \notin {None, response.user}

\* C3: once a job has a driver, its driver field never changes again.
C3_DriverSetOnce ==
    [][\A j \in Ids :
          /\ (IsOrder(j) /\ food_orders[j].driver_id # None)
                => food_orders'[j].driver_id = food_orders[j].driver_id
          /\ (IsParcel(j) /\ parcel_deliveries[j].driver_id # None)
                => parcel_deliveries'[j].driver_id = parcel_deliveries[j].driver_id]_vars

\* C4: a cancel by the requester that finds the job in a status other than
\* pending/confirmed (order) or pending/assigned (parcel) is refused with 400
\* and changes nothing; one that finds it in such a status goes on to commit,
\* and the commit sets cancelled.
C4_CancelOnlyFromCancellable ==
    [][/\ \A u \in Users, o \in Ids :
             (IsOrder(o) /\ food_orders[o].customer_id = u /\ cancel_order_begin(u, o))
             => IF food_orders[o].status \in {"pending", "confirmed"}
                THEN /\ response' = NoResponse
                     /\ sessions' = sessions (+) SetToBag({[op |-> "cancel_order",
                                        pc |-> "commit", user |-> u, id |-> o,
                                        status |-> food_orders[o].status]})
                     /\ UNCHANGED Tables
                ELSE /\ response' = Response("cancel_order", u, o, 400,
                            "Cannot cancel order with status: " \o food_orders[o].status)
                     /\ UNCHANGED <<Tables, sessions>>
       /\ \A u \in Users, p \in Ids :
             (IsParcel(p) /\ parcel_deliveries[p].sender_id = u /\ cancel_parcel_begin(u, p))
             => IF parcel_deliveries[p].status \in {"pending", "assigned"}
                THEN /\ response' = NoResponse
                     /\ sessions' = sessions (+) SetToBag({[op |-> "cancel_parcel",
                                        pc |-> "commit", user |-> u, id |-> p,
                                        status |-> parcel_deliveries[p].status]})
                     /\ UNCHANGED Tables
                ELSE /\ response' = Response("cancel_parcel", u, p, 400,
                            "Cannot cancel parcel with status: " \o parcel_deliveries[p].status)
                     /\ UNCHANGED <<Tables, sessions>>
       /\ \A j \in Ids :
             /\ Answered("cancel_order", j, 200) => food_orders'[j].status = "cancelled"
             /\ Answered("cancel_parcel", j, 200) => parcel_deliveries'[j].status = "cancelled"]_vars

C4_Witness ==
    /\ response.op = "cancel_order"
    /\ response.status_code = 400
    /\ food_orders[response.id].customer_id = response.user
    /\ food_orders[response.id].status = "picked_up"

\* C5: a cancel by anyone but the requester is refused with 403, whatever the
\* status, and changes nothing.
C5_CancelByOthersForbidden ==
    [][/\ \A u \in Users, o \in Ids :
             (IsOrder(o) /\ food_orders[o].customer_id # u /\ cancel_order_begin(u, o))
             => /\ response' = Response("cancel_order", u, o, 403,
                                        "Not authorized to cancel this order")
                /\ UNCHANGED <<Tables, sessions>>
       /\ \A u \in Users, p \in Ids :
             (IsParcel(p) /\ parcel_deliveries[p].sender_id # u /\ cancel_parcel_begin(u, p))
             => /\ response' = Response("cancel_parcel", u, p, 403,
                                        "Not authorized to cancel this parcel")
                /\ UNCHANGED <<Tables, sessions>>]_vars

C5_Witness ==
    /\ response.op = "cancel_order"
    /\ response.status_code = 403
    /\ food_orders[response.id].customer_id # response.user
    /\ food_orders[response.id].driver_id = response.user
    /\ food_orders[response.id].status = "confirmed"

\* C6: a request that finds a job cancelled leaves the job's status and
\* driver as they are.
C6_CancelledIsFinal ==
    [][\A r \in InProgress :
          /\ (r.status = "cancelled" /\ OrderCommit(r))
                => /\ food_orders'[r.id].status = "cancelled"
                   /\ food_orders'[r.id].driver_id = food_orders[r.id].driver_id
          /\ (r.status = "cancelled" /\ ParcelCommit(r))
                => /\ parcel_deliveries'[r.id].status = "cancelled"
                   /\ parcel_deliveries'[r.id].driver_id = parcel_deliveries[r.id].driver_id]_vars

\* C7: a request that finds a job delivered leaves it delivered, a status
\* update by the assigned driver included.
C7_DeliveredIsFinal ==
    [][\A r \in InProgress :
          /\ (r.status = "delivered" /\ OrderCommit(r))
                => food_orders'[r.id].status = "delivered"
          /\ (r.status = "delivered" /\ ParcelCommit(r))
                => parcel_deliveries'[r.id].status = "delivered"]_vars

\* C8: a claim on a food order succeeds only if it found the order confirmed
\* or ready (and without a driver).
C8_ClaimOnlyConfirmedOrReady ==
    [][\A r \in InProgress :
          accept_food_order_commit(r) => r.status \in {"confirmed", "ready"}]_vars

\* C9: a claim on a parcel succeeds only if it found the parcel pending (and
\* without a driver), and then leaves it assigned; a cancelled parcel that
\* never had a driver stays cancelled, without a driver.
C9_ClaimOnlyPending ==
    [][/\ \A r \in InProgress :
             accept_parcel_commit(r)
             => /\ r.status = "pending"
                /\ parcel_deliveries'[r.id].status = "assigned"
       /\ \A p \in Ids :
             (/\ IsParcel(p)
              /\ parcel_deliveries[p].status = "cancelled"
              /\ parcel_deliveries[p].driver_id = None)
             => parcel_deliveries'[p] = parcel_deliveries[p]]_vars

C11_UpdateByOthersForbidden ==
    [][/\ \A u \in Drivers, o \in Ids, new_status \in OrderStatus :
             (/\ IsOrder(o)
              /\ food_orders[o].driver_id # u
              /\ update_order_status_begin(u, o, new_status))
             => /\ response' = Response("update_order_status", u, o, 403,
                                        "Not authorized to update this order")
                /\ UNCHANGED <<Tables, sessions>>
       /\ \A u \in Drivers, p \in Ids, new_status \in ParcelStatus :
             (/\ IsParcel(p)
              /\ parcel_deliveries[p].driver_id # u
              /\ update_parcel_status_begin(u, p, new_status))
             => /\ response' = Response("update_parcel_status", u, p, 403,
                                        "Not authorized to update this parcel")
                /\ UNCHANGED <<Tables, sessions>>]_vars

C11_Witness ==
    /\ response.op = "update_order_status"
    /\ response.status_code = 403
    /\ food_orders[response.id].driver_id = None
    /\ food_orders[response.id].status = "confirmed"

\* C12: a status update to delivered on a job that is already delivered
\* leaves every driver's total_deliveries as it is: the counter rises once per
\* job, when the job first becomes delivered.
C12_DeliveredCountedOnce ==
    [][\A r \in InProgress :
          (/\ update_order_status_commit(r) \/ update_parcel_status_commit(r)
           /\ r.new_status = "delivered"
           /\ r.status = "delivered")
          => UNCHANGED total_deliveries]_vars

\* The lifecycle orders, and a status's place in one.
OrderLifecycle == <<"pending", "confirmed", "preparing", "ready", "picked_up", "delivered">>

ParcelLifecycle == <<"pending", "assigned", "picked_up", "in_transit", "delivered">>

Place(lifecycle, st) == CHOOSE i \in 1..Len(lifecycle) : lifecycle[i] = st

\* A change of status that the lifecycle allows: forward, or to cancelled from
\* one of the statuses `cancellable`.
Monotonic(lifecycle, cancellable, old, new) ==
    \/ new = old
    \/ new = "cancelled" /\ old \in cancellable
    \/ new # "cancelled" /\ Place(lifecycle, new) > Place(lifecycle, old)

\* C13: no step moves a job that is not cancelled to an earlier status; the
\* only change that is not forward is to cancelled, from pending/confirmed
\* (order) or pending/assigned (parcel).
C13_StatusMonotonic ==
    [][\A j \in Ids :
          /\ (IsOrder(j) /\ food_orders[j].status # "cancelled")
                => Monotonic(OrderLifecycle, {"pending", "confirmed"},
                             food_orders[j].status, food_orders'[j].status)
          /\ (IsParcel(j) /\ parcel_deliveries[j].status # "cancelled")
                => Monotonic(ParcelLifecycle, {"pending", "assigned"},
                             parcel_deliveries[j].status, parcel_deliveries'[j].status)]_vars

\* new is a later status of the lifecycle than old.
Later(lifecycle, old, new) ==
    /\ old # "cancelled"
    /\ new # "cancelled"
    /\ Place(lifecycle, new) > Place(lifecycle, old)

\* The request r has passed the handler's checks and waits for its next step.
Accepted(r) == response' = NoResponse /\ sessions' = sessions (+) SetToBag({r})

\* C14: a status update by the job's driver to a later status, next in the
\* lifecycle or not, is not refused, and its commit answers 200 and leaves the
\* job with exactly the requested status.
C14_ForwardJumpAccepted ==
    [][/\ \A u \in Drivers, o \in Ids, new_status \in OrderStatus :
             (/\ IsOrder(o)
              /\ food_orders[o].driver_id = u
              /\ Later(OrderLifecycle, food_orders[o].status, new_status)
              /\ update_order_status_begin(u, o, new_status))
             => \E r \in BagToSet(sessions') :
                   /\ Accepted(r)
                   /\ r.op = "update_order_status" /\ r.user = u /\ r.id = o
                   /\ r.status = food_orders[o].status /\ r.new_status = new_status
       /\ \A u \in Drivers, p \in Ids, new_status \in ParcelStatus :
             (/\ IsParcel(p)
              /\ parcel_deliveries[p].driver_id = u
              /\ Later(ParcelLifecycle, parcel_deliveries[p].status, new_status)
              /\ update_parcel_status_begin(u, p, new_status))
             => \E r \in BagToSet(sessions') :
                   /\ Accepted(r)
                   /\ r.op = "update_parcel_status" /\ r.user = u /\ r.id = p
                   /\ r.status = parcel_deliveries[p].status /\ r.new_status = new_status
       /\ \A r \in InProgress :
             /\ (update_order_status_commit(r) /\ Later(OrderLifecycle, r.status, r.new_status))
                   => /\ Answered("update_order_status", r.id, 200)
                      /\ food_orders'[r.id].status = r.new_status
             /\ (update_parcel_status_commit(r) /\ Later(ParcelLifecycle, r.status, r.new_status))
                   => /\ Answered("update_parcel_status", r.id, 200)
                      /\ parcel_deliveries'[r.id].status = r.new_status]_vars

\* An update to delivered has committed on an order that another request of
\* the driver, still in progress, read as preparing.
C14_Witness ==
    /\ response.op = "update_order_status"
    /\ response.status_code = 200
    /\ response.detail = "delivered"
    /\ food_orders[response.id].status = "delivered"
    /\ \E r \in InProgress :
          /\ r.op = "update_order_status"
          /\ r.id = response.id
          /\ r.user = response.user
          /\ r.status = "preparing"

\* C15: a status update that names the status the job already has leaves the
\* timestamp of that status as it was first written: delivered_at of an order
\* or parcel, picked_up_at of a parcel.
C15_TimestampWrittenOnce ==
    [][\A r \in InProgress :
          /\ (update_order_status_commit(r) /\ r.new_status = r.status)
                => food_orders'[r.id].delivered_at = food_orders[r.id].delivered_at
          /\ (update_parcel_status_commit(r) /\ r.new_status = r.status)
                => /\ parcel_deliveries'[r.id].delivered_at = parcel_deliveries[r.id].delivered_at
                   /\ parcel_deliveries'[r.id].picked_up_at
                         = parcel_deliveries[r.id].picked_up_at]_vars

\* C16: a food order whose status is confirmed has its confirmed_at set.
C16_ConfirmedStamped ==
    \A o \in Ids :
        (IsOrder(o) /\ food_orders[o].status = "confirmed")
        => food_orders[o].confirmed_at # NoTime

\* The order was made from a non-empty list with every quantity at least 1.
ProperItems(o) ==
    /\ Len(order_items[o]) >= 1
    /\ \A i \in 1..Len(order_items[o]) : order_items[o][i].quantity >= 1

\* amount has at most two fractional digits.
TwoDecimals(amount) == amount % Cent = 0

\* tax is 8 hundredths of subtotal, to the nearest cent.
IsTaxOf(subtotal, tax) ==
    LET diff == 100 * tax - 8 * subtotal
    IN  /\ 2 * diff <= 100 * Cent
        /\ 2 * (0 - diff) <= 100 * Cent

\* C17: on every order created from a non-empty item list with quantities of
\* at least 1, tax is subtotal * 0.08 rounded to two decimals, total_amount is
\* subtotal + delivery_fee + tax exactly, and each of the four amounts has at
\* most two fractional digits.
C17_TaxAndTotal ==
    \A o \in Ids :
        (IsOrder(o) /\ ProperItems(o))
        => LET order == food_orders[o]
           IN  /\ TwoDecimals(order.subtotal)
               /\ TwoDecimals(order.delivery_fee)
               /\ TwoDecimals(order.tax)
               /\ TwoDecimals(order.total_amount)
               /\ IsTaxOf(order.subtotal, order.tax)
               /\ order.total_amount = order.subtotal + order.delivery_fee + order.tax

\* Items 10.00 x 2 and 5.50 x 1 with fee 3.99: subtotal 25.50, tax 2.04,
\* total 31.53.
C17_Witness ==
    /\ response.op = "create_food_order"
    /\ response.status_code = 201
    /\ LET o == response.id
       IN  /\ Len(order_items[o]) = 2
           /\ order_items[o][1].unit_price = Cents(1000) /\ order_items[o][1].quantity = 2
           /\ order_items[o][2].unit_price = Cents(550) /\ order_items[o][2].quantity = 1
           /\ food_orders[o].delivery_fee = Cents(399)
           /\ food_orders[o].subtotal = Cents(2550)
           /\ food_orders[o].tax = Cents(204)
           /\ food_orders[o].total_amount = Cents(3153)

\* The sum of the line totals of a list of order_items rows.
RECURSIVE LineTotals(_)
LineTotals(rows) ==
    IF rows = <<>> THEN 0 ELSE Head(rows).total_price + LineTotals(Tail(rows))

\* C18: on every created order, each item's total_price is its unit_price
\* (the menu item's price) times its quantity, and the order's subtotal is the
\* sum of the total_price of the rows stored for the order.
C18_LineTotalsAndSubtotal ==
    \A o \in Ids :
        IsOrder(o)
        => /\ \A i \in 1..Len(order_items[o]) :
                 LET row == order_items[o][i]
                 IN  /\ row.unit_price = menu_items[row.menu_item_id].price
                     /\ row.total_price = row.unit_price * row.quantity
           /\ food_orders[o].subtotal = LineTotals(order_items[o])

C18_Witness ==
    /\ response.op = "create_food_order"
    /\ response.status_code = 201
    /\ LET o == response.id
       IN  /\ Len(order_items[o]) = 2
           /\ order_items[o][1].menu_item_id = 2
           /\ order_items[o][1].quantity = 2
           /\ order_items[o][1].total_price = Cents(1798)
           /\ order_items[o][2].menu_item_id = 1
           /\ order_items[o][2].total_price = Cents(550)
           /\ food_orders[o].subtotal = Cents(2348)

\* The request names a restaurant that has no row or is inactive, or some
\* menu item, first in the list or not, that has no row or is unavailable.
NotOnOffer(order_data) ==
    \/ restaurants[order_data.restaurant_id] = NoRow
    \/ ~restaurants[order_data.restaurant_id].is_active
    \/ \E i \in 1..Len(order_data.items) :
          \/ menu_items[order_data.items[i].menu_item_id] = NoRow
          \/ ~menu_items[order_data.items[i].menu_item_id].is_available

\* The step just taken answered 404 or 400 to create_food_order and stored
\* no order and no order item.
CreateRefused ==
    /\ response'.op = "create_food_order"
    /\ response'.status_code \in {404, 400}
    /\ UNCHANGED <<food_orders, order_items>>

\* C19: a step of create_food_order on a request that is not on offer is a
\* refusal: every step is a refusal or the step of no such request.
C19_CreateRefused ==
    [][\/ CreateRefused
       \/ \A u \in Customers, o \in Ids, order_data \in FoodOrderCreate :
             NotOnOffer(order_data) => ~create_food_order(u, o, order_data)]_vars

\* Refused for menu item 2, which is not on offer while menu item 1 and its
\* restaurant are.
C19_Witness ==
    /\ response.op = "create_food_order"
    /\ response.status_code = 400
    /\ response.detail = "Menu item 2 not available"
    /\ menu_items[1] # NoRow /\ menu_items[1].is_available
    /\ menu_items[2] # NoRow /\ ~menu_items[2].is_available
    /\ \A o \in Ids : ~IsOrder(o) /\ order_items[o] = <<>>

\* C20: every item stored for an order is a menu item of the order's
\* restaurant: a request naming another restaurant's item stores no order.
C20_ItemsOfTheRestaurant ==
    \A o \in Ids :
        (IsOrder(o) /\ ProperItems(o))
        => \A i \in 1..Len(order_items[o]) :
              menu_items[order_items[o][i].menu_item_id].restaurant_id
                  = food_orders[o].restaurant_id

\* C21: a request with a quantity below 1 stores no order: every stored
\* order item has a quantity of at least 1 and every stored order a subtotal
\* of at least 0.
C21_QuantityAtLeastOne ==
    \A o \in Ids :
        IsOrder(o)
        => /\ \A i \in 1..Len(order_items[o]) : order_items[o][i].quantity >= 1
           /\ food_orders[o].subtotal >= 0

\* The fee of section 4.1 written out per size: 5 + 2d, 7.5 + 3d, 10 + 4d.
ExpectedFee(d, size) ==
    CASE size = "small" -> 5 * One + 2 * d
      [] size = "medium" -> (15 * One + 6 * d) \div 2
      [] size = "large" -> 10 * One + 4 * d

\* C22: for the distance and the size of every parcel the API created, the
\* fee that calculate_delivery_fee returns is (5.00 + d * 2.00) * m with m
\* 1.0, 1.5 or 2.0; 10 km and large give 50.00.
C22_FeeFormula ==
    /\ calculate_delivery_fee(10 * One, "large") = Cents(5000)
    /\ \A p \in Ids :
          IsParcel(p)
          => LET parcel == parcel_deliveries[p]
             IN  calculate_delivery_fee(parcel.estimated_distance_km, parcel.parcel_size)
                   = ExpectedFee(parcel.estimated_distance_km, parcel.parcel_size)

\* A medium parcel was created over the distance between (1, 1) and (2, 2).
C22_Witness ==
    /\ response.op = "create_parcel_delivery"
    /\ response.status_code = 201
    /\ \E p \in Ids :
          /\ IsParcel(p)
          /\ parcel_deliveries[p].parcel_size = "medium"
          /\ parcel_deliveries[p].estimated_distance_km = 1572254

\* One of the four coordinates of the request was None.
SomeCoordinateAbsent(parcel) ==
    NoCoordinate \in {parcel.pickup_latitude, parcel.pickup_longitude,
                      parcel.delivery_latitude, parcel.delivery_longitude}

\* C23: a parcel created with one of its four coordinates absent has the
\* distance 5.0 and the fee 15.00 (small), 22.50 (medium) or 30.00 (large).
C23_DefaultDistance ==
    \A p \in Ids :
        (IsParcel(p) /\ SomeCoordinateAbsent(parcel_deliveries[p]))
        => LET parcel == parcel_deliveries[p]
           IN  /\ parcel.estimated_distance_km = 5 * One
               /\ parcel.delivery_fee =
                      CASE parcel.parcel_size = "small" -> Cents(1500)
                        [] parcel.parcel_size = "medium" -> Cents(2250)
                        [] parcel.parcel_size = "large" -> Cents(3000)

\* A large parcel was created with its pickup latitude absent and the three
\* other coordinates given.
C23_Witness ==
    /\ response.op = "create_parcel_delivery"
    /\ response.status_code = 201
    /\ \E p \in Ids :
          /\ IsParcel(p)
          /\ parcel_deliveries[p].parcel_size = "large"
          /\ parcel_deliveries[p].pickup_latitude = NoCoordinate
          /\ parcel_deliveries[p].pickup_longitude = 1
          /\ parcel_deliveries[p].delivery_latitude = 2
          /\ parcel_deliveries[p].delivery_longitude = 2

\* The caller is the requester of a delivered order; of a delivered parcel
\* that has a driver.
OrderReviewable(u, o) ==
    /\ IsOrder(o)
    /\ food_orders[o].customer_id = u
    /\ food_orders[o].status = "delivered"

ParcelReviewable(u, p) ==
    /\ IsParcel(p)
    /\ parcel_deliveries[p].sender_id = u
    /\ parcel_deliveries[p].status = "delivered"
    /\ parcel_deliveries[p].driver_id # None

\* The step just taken refused a review request and wrote nothing.
ReviewRefused ==
    /\ response'.op \in {"review_restaurant", "review_driver"}
    /\ response'.status_code \in {400, 403, 404}
    /\ UNCHANGED <<reviews, rating_average, sessions>>

\* C24: a review request whose caller is not the job's requester, or whose
\* job is not delivered (or, for a parcel, has no driver), is refused: no
\* review is stored and no average changes.
C24_ReviewOnlyByRequesterWhenDelivered ==
    [][\/ ReviewRefused
       \/ /\ \A u \in Users, o \in Ids, review_data \in ReviewCreate :
                ~OrderReviewable(u, o) => ~review_restaurant_begin(u, o, review_data)
          /\ \A u \in Users, p \in Ids, review_data \in ReviewCreate :
                ~ParcelReviewable(u, p) => ~review_driver_begin(u, p, review_data)]_vars

\* A review of a delivered order was refused to someone who is not its
\* customer.
C24_Witness ==
    /\ response.op = "review_restaurant"
    /\ response.status_code = 403
    /\ IsOrder(response.id)
    /\ food_orders[response.id].status = "delivered"

\* A review by u on job j is stored and no review request of u on j is in
\* progress.
ReviewCompleted(table, u, j) ==
    /\ existing_review(table, j, u)
    /\ \A r \in InProgress :
          ~(r.op \in {"review_restaurant", "review_driver"} /\ r.user = u /\ r.id = j)

AlreadyReviewed ==
    /\ response'.status_code = 400
    /\ response'.detail \in {"Order already reviewed", "Delivery already reviewed"}
    /\ UNCHANGED <<reviews, rating_average, sessions>>

\* C25: once a review by a reviewer on a job has completed, a second review
\* request by the same reviewer on that job fails with the already-reviewed
\* error, stores nothing and leaves the averages as they were.
C25_SecondReviewRefused ==
    [][\/ AlreadyReviewed
       \/ /\ \A u \in Users, o \in Ids, review_data \in ReviewCreate :
                ReviewCompleted(reviews.restaurant, u, o)
                => ~review_restaurant_begin(u, o, review_data)
          /\ \A u \in Users, p \in Ids, review_data \in ReviewCreate :
                ReviewCompleted(reviews.driver, u, p)
                => ~review_driver_begin(u, p, review_data)]_vars

\* The number of reviews a reviewer has stored on a job.
ReviewsBy(table, u, j) ==
    LET rows == {row \in BagToSet(table) : row.order_id = j /\ row.reviewer_id = u}
    IN  BagCardinality([row \in rows |-> table[row]])

\* C26: the store holds at most one review per reviewer, job and target
\* type.
C26_AtMostOneReview ==
    \A u \in Users, j \in Ids :
        /\ ReviewsBy(reviews.restaurant, u, j) <= 1
        /\ ReviewsBy(reviews.driver, u, j) <= 1

\* A review request added a review to those of the target.
ReviewedThroughApi(table, target) ==
    \E row \in BagToSet(table) : row.target_id = target /\ row.order_id # NoOrder

\* Python's round(x, 1) of the quotient a / b, in tenths: half to even.
RoundToTenths(a, b) ==
    LET q == (10 * a) \div b
        twice == 2 * ((10 * a) % b)
    IN  IF twice < b \/ (twice = b /\ q % 2 = 0) THEN q ELSE q + 1

MeanToOneDecimal(table, target) ==
    LET rows == reviews_of(table, target)
    IN  Tenths(RoundToTenths(sum_of_ratings(rows, BagToSet(rows)), len(rows)))

\* C27: when review requests are served one after another, the average
\* stored on a reviewed restaurant or driver is the mean of the ratings of
\* all its reviews, rounded to one decimal.
C27_AverageRoundedToOneDecimal ==
    sessions = EmptyBag
    => /\ \A t \in RestaurantIds :
             ReviewedThroughApi(reviews.restaurant, t)
             => rating_average.restaurant[t] = MeanToOneDecimal(reviews.restaurant, t)
       /\ \A t \in Drivers :
             ReviewedThroughApi(reviews.driver, t)
             => rating_average.driver[t] = MeanToOneDecimal(reviews.driver, t)

Mean(table, target) ==
    LET rows == reviews_of(table, target)
    IN  true_div(sum_of_ratings(rows, BagToSet(rows)), len(rows))

\* C28: once every review request has finished, the average stored on a
\* reviewed restaurant or driver is the one computed from all its reviews,
\* however the requests interleaved.
C28_NoLostContribution ==
    sessions = EmptyBag
    => /\ \A t \in RestaurantIds :
             ReviewedThroughApi(reviews.restaurant, t)
             => rating_average.restaurant[t] = Mean(reviews.restaurant, t)
       /\ \A t \in Drivers :
             ReviewedThroughApi(reviews.driver, t)
             => rating_average.driver[t] = Mean(reviews.driver, t)

\* The amounts stamped on an order with its items, and on a parcel.
OrderAmounts(order, items) ==
    <<order.subtotal, order.delivery_fee, order.tax, order.total_amount,
      [i \in 1..Len(items) |-> <<items[i].unit_price, items[i].total_price>>]>>

ParcelAmounts(parcel) == <<parcel.delivery_fee, parcel.estimated_distance_km>>

\* C29: no step of a claim, a cancel, a status update, a review or an admin
\* change of a restaurant changes the amounts of an order (subtotal, fee,
\* tax, total, unit prices and line totals) or of a parcel (fee, distance).
C29_AmountsImmutable ==
    [][\A j \in Ids :
          /\ IsOrder(j)
             => /\ food_orders'[j] # NoRow
                /\ OrderAmounts(food_orders'[j], order_items'[j])
                     = OrderAmounts(food_orders[j], order_items[j])
          /\ IsParcel(j)
             => /\ parcel_deliveries'[j] # NoRow
                /\ ParcelAmounts(parcel_deliveries'[j]) = ParcelAmounts(parcel_deliveries[j])]_vars

\* The admin changed the delivery fee of the restaurant of an order that was
\* claimed, delivered and reviewed.
C29_Witness ==
    \E o \in Ids :
        /\ IsOrder(o)
        /\ food_orders[o].driver_id # None
        /\ food_orders[o].status = "delivered"
        /\ existing_review(reviews.restaurant, o, food_orders[o].customer_id)
        /\ restaurants[food_orders[o].restaurant_id].delivery_fee # food_orders[o].delivery_fee

C31_CreatedPendingAndRequesterKept ==
    [][\A j \in Ids :
          /\ (~IsOrder(j) /\ IsOrder(j)')
             => /\ Answered("create_food_order", j, 201)
                /\ food_orders'[j].customer_id = response'.user
                /\ food_orders'[j].status = "pending"
                /\ food_orders'[j].driver_id = None
                /\ food_orders'[j].confirmed_at = NoTime
                /\ food_orders'[j].delivered_at = NoTime
          /\ (~IsParcel(j) /\ IsParcel(j)')
             => /\ Answered("create_parcel_delivery", j, 201)
                /\ parcel_deliveries'[j].sender_id = response'.user
                /\ parcel_deliveries'[j].status = "pending"
                /\ parcel_deliveries'[j].driver_id = None
                /\ parcel_deliveries'[j].picked_up_at = NoTime
                /\ parcel_deliveries'[j].delivered_at = NoTime
          /\ IsOrder(j)
             => /\ IsOrder(j)'
                /\ food_orders'[j].customer_id = food_orders[j].customer_id
          /\ IsParcel(j)
             => /\ IsParcel(j)'
                /\ parcel_deliveries'[j].sender_id = parcel_deliveries[j].sender_id]_vars

\* An order made through the API was claimed and delivered, and still names
\* the customer who made it.
C31_Witness ==
    /\ response.op = "update_order_status"
    /\ response.status_code = 200
    /\ IsOrder(response.id)
    /\ food_orders[response.id].status = "delivered"
    /\ food_orders[response.id].customer_id \in Customers

\* No two rows of users have the same email.
UniqueEmails ==
    \A a \in BagToSet(users) :
        /\ users[a] = 1
        /\ \A b \in BagToSet(users) : a.email = b.email => a = b

\* C32: a registration that names an email some account has is answered 400
\* and adds no account, and in every state, also when registrations with
\* one email overlap, no two accounts have the same email.
C32_EmailsUnique ==
    [][/\ UniqueEmails
       /\ UniqueEmails'
       /\ \A user_data \in UserRegister :
             (existing_user(user_data.email) # {} /\ register_begin(user_data))
             => /\ response'.status_code = 400
                /\ users' = users]_vars

\* Two registrations with one new email overlapped: one made the account,
\* the other was stopped when it sent its INSERT.
C32_Witness ==
    /\ response.op = "register"
    /\ response.status_code = 500
    /\ response.user # email_of("c1")
    /\ Cardinality(existing_user(response.user)) = 1

\* C33: when a claim and a cancel of one unclaimed job overlap and the
\* cancel commits first, the job stays cancelled: the commit of a claim that
\* read the job before the cancel took effect leaves the cancelled status of
\* the still unclaimed job as it is.
C33_CancelSurvivesConcurrentClaim ==
    [][\A r \in InProgress :
          /\ (/\ accept_food_order_commit(r)
              /\ r.status # "cancelled"
              /\ food_orders[r.id].driver_id = None
              /\ food_orders[r.id].status = "cancelled")
             => food_orders'[r.id].status = "cancelled"
          /\ (/\ accept_parcel_commit(r)
              /\ r.status # "cancelled"
              /\ parcel_deliveries[r.id].driver_id = None
              /\ parcel_deliveries[r.id].status = "cancelled")
             => parcel_deliveries'[r.id].status = "cancelled"]_vars

\* The rows the lifecycle requests can leave in place of `order` when one of
\* them runs on it alone: a cancel by a user who may cancel it, a claim by a
\* driver, a status update by the driver it names.
order_after(order) ==
    {[order EXCEPT !.status = "cancelled"] :
        u \in {u \in Users : cancel_order_owner(order, u) /\ cancel_order_status(order)}}
    \cup {[order EXCEPT !.driver_id = d,
                        !.status = accept_food_order_status(order.status, order.status)] :
             d \in {d \in Drivers : accept_food_order_check(order)}}
    \cup UNION {{[order EXCEPT !.status = new_status,
                               !.delivered_at = IF new_status = "delivered" THEN now ELSE @] :
                    new_status \in OrderStatus} :
                d \in {d \in Drivers : update_order_status_check(order, d)}}

\* The rows that sequences of such requests can make of the rows given.
RECURSIVE orders_after(_)
orders_after(rows) ==
    LET more == rows \cup UNION {order_after(order) : order \in rows}
    IN  IF more = rows THEN rows ELSE orders_after(more)

\* C34: an order as create_food_order leaves it can be brought, by some
\* sequence of cancels, claims and status updates, to a row that the
\* available-orders view lists: no driver, status confirmed or ready.
C34_CreatedOrderCanBecomeAvailable ==
    \A o \in Ids :
        (/\ IsOrder(o)
         /\ food_orders[o].status = "pending"
         /\ food_orders[o].driver_id = None)
        => \E order \in orders_after({food_orders[o]}) :
               /\ order.driver_id = None
               /\ order.status \in {"confirmed", "ready"}

\* C35: a job whose status is delivered names a driver and has its delivered
\* timestamp, so no review of a parcel can be answered "No driver assigned
\* to this delivery".
C35_DeliveredHasDriverAndTimestamp ==
    /\ \A j \in Ids :
          /\ (IsOrder(j) /\ food_orders[j].status = "delivered")
             => /\ food_orders[j].driver_id \in Drivers
                /\ food_orders[j].delivered_at # NoTime
          /\ (IsParcel(j) /\ parcel_deliveries[j].status = "delivered")
             => /\ parcel_deliveries[j].driver_id \in Drivers
                /\ parcel_deliveries[j].delivered_at # NoTime
    /\ ~ENABLED (\E u \in Users, p \in Ids, review_data \in ReviewCreate :
                    /\ review_driver_begin(u, p, review_data)
                    /\ response'.detail = "No driver assigned to this delivery")

\* A parcel made through the API was claimed and reported delivered.
C35_Witness ==
    /\ response.op = "update_parcel_status"
    /\ response.status_code = 200
    /\ IsParcel(response.id)
    /\ parcel_deliveries[response.id].status = "delivered"
    /\ parcel_deliveries[response.id].delivered_at # NoTime

\* C36: a job that names a driver and is neither delivered nor cancelled is
\* in that driver's current deliveries, and no job is in some driver's
\* current deliveries and in an available view at once.
C36_AssignedJobsAreCurrent ==
    \A d \in Drivers :
        /\ \A j \in Ids :
              /\ (/\ IsOrder(j)
                  /\ food_orders[j].driver_id = d
                  /\ food_orders[j].status \notin {"delivered", "cancelled"})
                 => j \in get_current_deliveries(d).food_orders
              /\ (/\ IsParcel(j)
                  /\ parcel_deliveries[j].driver_id = d
                  /\ parcel_deliveries[j].status \notin {"delivered", "cancelled"})
                 => j \in get_current_deliveries(d).parcels
        /\ get_current_deliveries(d).food_orders \cap get_available_food_orders = {}
        /\ get_current_deliveries(d).parcels \cap get_available_parcels = {}

\* The jobs of driver d that are delivered.
DeliveredBy(d) ==
    {j \in CounterIds :
        \/ /\ food_orders[j] # NoRow
           /\ food_orders[j].driver_id = d
           /\ food_orders[j].status = "delivered"
        \/ /\ parcel_deliveries[j] # NoRow
           /\ parcel_deliveries[j].driver_id = d
           /\ parcel_deliveries[j].status = "delivered"}

\* C37: when no request is in progress, the counter of each driver has
\* grown by the number of that driver's jobs that reached delivered, also
\* when the deliveries of two of the driver's jobs overlapped.
C37_CounterCountsEveryDelivery ==
    sessions = EmptyBag
    => \A d \in Drivers : total_deliveries[d] = Cardinality(DeliveredBy(d))

\* The restaurant or driver has a review, and its average was computed by a
\* review request.
Rated(table, target) ==
    /\ ReviewedThroughApi(table, target)
    /\ reviews_of(table, target) # EmptyBag

\* C38: when no request is in progress, the average stored on a rated
\* restaurant or driver is the mean of the reviews stored for it now, also
\* after an administrator has deleted one of them.
C38_AverageFollowsDeletes ==
    sessions = EmptyBag
    => /\ \A t \in RestaurantIds :
             Rated(reviews.restaurant, t)
             => rating_average.restaurant[t] = Mean(reviews.restaurant, t)
       /\ \A t \in Drivers :
             Rated(reviews.driver, t)
             => rating_average.driver[t] = Mean(reviews.driver, t)

\* C39: a parcel that was created with all four coordinates given, a
\* latitude or longitude of 0 included, has the distance computed from them.
C39_ComputedDistanceWhenAllGiven ==
    \A p \in Ids :
        (/\ IsParcel(p)
         /\ ~SomeCoordinateAbsent(parcel_deliveries[p]))
        => parcel_deliveries[p].estimated_distance_km =
              calculate_distance(parcel_deliveries[p].pickup_latitude,
                                 parcel_deliveries[p].pickup_longitude,
                                 parcel_deliveries[p].delivery_latitude,
                                 parcel_deliveries[p].delivery_longitude)

====
